---- MODULE Spec2Model ----
(***************************************************************************)
(* Model of nx-check-changes (src/src/main.ts, lines 1-258): the reference *)
(* resolver getBaseAndHeadRefs, the path classifier dirFinder, the         *)
(* affected-set resolver getChanges and the sequential run of main.        *)
(*                                                                         *)
(* JavaScript strings are sequences of one-character strings, so that the  *)
(* regular expression of dirFinder and String.split are computed on        *)
(* characters.  The value `undefined` is the one-element sequence          *)
(* <<"undefined">>, which is no string of the model's alphabet.            *)
(***************************************************************************)
EXTENDS Integers, Sequences, FiniteSets, TLC

VARIABLES pc, context, inputs, refs, config, args, changes, outputs, failed, log

vars == <<pc, context, inputs, refs, config, args, changes, outputs, failed, log>>

\* ------------------------------------------------------------------ bounds
\* longest list of changed files the diff returns
MaxFiles == 2

\* ------------------------------------------------------- JavaScript values
undefined == <<"undefined">>
\* `undefined` where the defined values are arrays of strings
undefinedArray == <<undefined>>
EmptyString == <<>>

\* !x for a string-or-undefined value
Falsy(x) == x = undefined \/ x = EmptyString

Range(s) == {s[k] : k \in 1..Len(s)}

\* Array.prototype.includes
includes(arr, x) == \E k \in 1..Len(arr) : arr[k] = x

\* Set.prototype.add on an insertion-ordered set, kept as a duplicate-free sequence
SetAdd(set, x) == IF includes(set, x) THEN set ELSE Append(set, x)

\* Array.prototype.filter(name => !ignore.includes(name))
RECURSIVE FilterIgnored(_, _)
FilterIgnored(arr, ignore) ==
  IF arr = <<>> THEN <<>>
  ELSE IF includes(ignore, Head(arr)) THEN FilterIgnored(Tail(arr), ignore)
       ELSE <<Head(arr)>> \o FilterIgnored(Tail(arr), ignore)

\* str.split('/').slice(-1)[0]: the characters after the last '/'
RECURSIVE LastSegment(_)
LastSegment(str) ==
  IF str = <<>> THEN <<>>
  ELSE IF str[Len(str)] = "/" THEN <<>>
       ELSE Append(LastSegment(SubSeq(str, 1, Len(str) - 1)), str[Len(str)])

\* ---------------------------------------------------------------- dirFinder
\* end of the maximal run of non-'/' characters of file that starts at n
\* (n - 1 when file[n] is '/' or n is past the end)
RECURSIVE RunEnd(_, _)
RunEnd(file, n) ==
  IF n > Len(file) \/ file[n] = "/" THEN n - 1 ELSE RunEnd(file, n + 1)

\* the regular expression (dir\/[^/]+)\/.+ tried at start position s: the
\* position where group 1 ends, or 0 when there is no match at s.  [^/]+ is
\* followed by a '/', so it can only match the maximal run; .+ needs one more
\* character.  dir is taken literally (it holds no regex metacharacter).
MatchEnd(dir, file, s) ==
  LET d == Len(dir)
      n == s + d + 1
      e == RunEnd(file, n)
  IN IF /\ s + d <= Len(file)
        /\ SubSeq(file, s, s + d - 1) = dir
        /\ file[s + d] = "/"
        /\ e >= n
        /\ e + 2 <= Len(file)
        /\ file[e + 1] = "/"
     THEN e ELSE 0

\* String.prototype.match without the g flag: the leftmost match; ?.[1] is
\* group 1, undefined when nothing matches.  The expression is not anchored.
RECURSIVE MatchFrom(_, _, _)
MatchFrom(dir, file, s) ==
  IF s > Len(file) THEN undefined
  ELSE IF MatchEnd(dir, file, s) > 0 THEN SubSeq(file, s, MatchEnd(dir, file, s))
       ELSE MatchFrom(dir, file, s + 1)

dirFinder(dir, file) == MatchFrom(dir, file, 1)

\* --------------------------------------------------------------- getChanges
\* An implicit-dependency entry is {file} (global) or {key, projects}
\* (keyed fan-out); an absent field is undefined.
GlobalEntry(f) == [file |-> f, key |-> undefined, projects |-> undefinedArray]
KeyedEntry(k, ps) == [file |-> undefined, key |-> k, projects |-> ps]

\* Array.prototype.find over the entries, by the index of the first entry
\* whose field equals x; 0 stands for undefined
RECURSIVE FindFrom(_, _, _, _)
FindFrom(entries, field, x, k) ==
  IF k > Len(entries) THEN 0
  ELSE IF entries[k][field] = x THEN k
       ELSE FindFrom(entries, field, x, k + 1)

findImplicitDependencies(entries, file) == FindFrom(entries, "file", file, 1)
findByKey(entries, libName) == FindFrom(entries, "key", libName, 1)

\* names.forEach(name => set.add(name.split('/').slice(-1)[0]))
RECURSIVE AddAllNames(_, _)
AddAllNames(set, names) ==
  IF names = <<>> THEN set
  ELSE AddAllNames(SetAdd(set, LastSegment(Head(names))), Tail(names))

\* FanOut without the allLibs branch: a declared library is not propagated to
RECURSIVE FanOutAppsOnly(_, _, _)
FanOutAppsOnly(acc, projects, a) ==
  IF projects = <<>> THEN acc
  ELSE LET project == Head(projects)
           acc1 == IF includes(a.allApps, project)
                   THEN [acc EXCEPT !.apps = SetAdd(@, LastSegment(project))]
                   ELSE acc
       IN FanOutAppsOnly(acc1, Tail(projects), a)

\* [...projects].forEach(project => ...) of the library branch
RECURSIVE FanOut(_, _, _)
FanOut(acc, projects, a) ==
  IF projects = <<>> THEN acc
  ELSE LET project == Head(projects)
           acc1 == IF includes(a.allApps, project)
                   THEN [acc EXCEPT !.apps = SetAdd(@, LastSegment(project))]
                   ELSE acc
           acc2 == IF includes(a.allLibs, project)
                   THEN [acc1 EXCEPT !.libs = SetAdd(@, LastSegment(project))]
                   ELSE acc1
       IN FanOut(acc2, Tail(projects), a)

\* GlobalHit without the allLibs.forEach line
GlobalHitAppsOnly(acc, file, a) ==
  LET k == findImplicitDependencies(a.implicitDependencies, file)
  IN IF k > 0
     THEN [apps |-> AddAllNames(acc.apps, a.allApps),
           libs |-> acc.libs,
           implicitDependencies |->
             Append(acc.implicitDependencies, a.implicitDependencies[k].file)]
     ELSE acc

\* GlobalHit assigning new sets in place of adding to the accumulated ones
GlobalHitReset(acc, file, a) ==
  LET k == findImplicitDependencies(a.implicitDependencies, file)
  IN IF k > 0
     THEN [apps |-> AddAllNames(<<>>, a.allApps),
           libs |-> AddAllNames(<<>>, a.allLibs),
           implicitDependencies |->
             Append(acc.implicitDependencies, a.implicitDependencies[k].file)]
     ELSE acc

\* rule 1 of the reducer: the file is a global implicit dependency
GlobalHit(acc, file, a) ==
  LET k == findImplicitDependencies(a.implicitDependencies, file)
  IN IF k > 0
     THEN [apps |-> AddAllNames(acc.apps, a.allApps),
           libs |-> AddAllNames(acc.libs, a.allLibs),
           implicitDependencies |->
             Append(acc.implicitDependencies, a.implicitDependencies[k].file)]
     ELSE acc

\* rule 2 of the reducer: the file is inside a library
LibHit(acc, file, a) ==
  LET lib == dirFinder(a.libsDir, file)
  IN IF lib # undefined
     THEN LET libName == LastSegment(lib)
              acc1 == [acc EXCEPT !.libs = SetAdd(@, LastSegment(lib))]
              k == findByKey(a.implicitDependencies, libName)
          IN IF k > 0 /\ a.implicitDependencies[k].projects # undefinedArray
             THEN FanOut(acc1, a.implicitDependencies[k].projects, a)
             ELSE acc1
     ELSE acc

\* rule 3 of the reducer: the file is inside an application
AppHit(acc, file, a) ==
  LET app == dirFinder(a.appsDir, file)
  IN IF app # undefined
     THEN [acc EXCEPT !.apps = SetAdd(@, LastSegment(app))]
     ELSE acc

\* the callback of changedFiles.reduce
reducer(acc, file, a) == AppHit(LibHit(GlobalHit(acc, file, a), file, a), file, a)

EmptyChanges == [apps |-> <<>>, libs |-> <<>>, implicitDependencies |-> <<>>]

RECURSIVE reduce(_, _, _)
reduce(acc, changedFiles, a) ==
  IF changedFiles = <<>> THEN acc
  ELSE reduce(reducer(acc, Head(changedFiles), a), Tail(changedFiles), a)

\* the returned record: ignore filters apps; libs are returned as accumulated
returnChanges(acc, ignore) ==
  [apps |-> FilterIgnored(acc.apps, ignore),
   libs |-> acc.libs,
   implicitDependencies |-> acc.implicitDependencies]

getChanges(a) == returnChanges(reduce(EmptyChanges, a.changedFiles, a), a.ignore)

\* --------------------------------------------------------------- JSON.parse
QUOTE == "\""
Digits == {"0", "1", "2", "3", "4", "5", "6", "7", "8", "9"}

SyntaxError == [ok |-> FALSE, kind |-> "error", v |-> <<>>, next |-> 0]

\* position of the first '"' at or after i, 0 when there is none
RECURSIVE QuoteFrom(_, _)
QuoteFrom(s, i) ==
  IF i > Len(s) THEN 0 ELSE IF s[i] = QUOTE THEN i ELSE QuoteFrom(s, i + 1)

RECURSIVE DigitsEnd(_, _)
DigitsEnd(s, i) ==
  IF i > Len(s) \/ s[i] \notin Digits THEN i - 1 ELSE DigitsEnd(s, i + 1)

\* One JSON value of the text s starting at position i, for the part of JSON
\* the ignore texts are drawn from: a string without escapes, an unsigned
\* integer without leading zero, {} or an array of such values, without white
\* space.  Within that part every other text is a SyntaxError.  A string
\* value is its characters; a number is <<"number">> followed by its digits,
\* which equals no string.
RECURSIVE ParseValue(_, _), ParseItems(_, _, _)
ParseValue(s, i) ==
  IF i > Len(s) THEN SyntaxError
  ELSE IF s[i] = QUOTE
       THEN LET j == QuoteFrom(s, i + 1)
            IN IF j = 0 THEN SyntaxError
               ELSE [ok |-> TRUE, kind |-> "string", v |-> SubSeq(s, i + 1, j - 1), next |-> j + 1]
  ELSE IF s[i] \in Digits
       THEN LET e == DigitsEnd(s, i)
            IN IF s[i] = "0" /\ e > i THEN SyntaxError
               ELSE [ok |-> TRUE, kind |-> "number", v |-> <<"number">> \o SubSeq(s, i, e), next |-> e + 1]
  ELSE IF s[i] = "{"
       THEN IF i + 1 <= Len(s) /\ s[i + 1] = "}"
            THEN [ok |-> TRUE, kind |-> "object", v |-> <<"object">>, next |-> i + 2]
            ELSE SyntaxError
  ELSE IF s[i] = "["
       THEN IF i + 1 <= Len(s) /\ s[i + 1] = "]"
            THEN [ok |-> TRUE, kind |-> "array", v |-> <<>>, next |-> i + 2]
            ELSE ParseItems(s, i + 1, <<>>)
  ELSE SyntaxError

\* the items of an array after '[' or ',', up to the closing ']'
ParseItems(s, i, items) ==
  LET r == ParseValue(s, i)
  IN IF ~r.ok THEN SyntaxError
     ELSE IF r.next > Len(s) THEN SyntaxError
     ELSE IF s[r.next] = "]"
          THEN [ok |-> TRUE, kind |-> "array", v |-> Append(items, r.v), next |-> r.next + 1]
     ELSE IF s[r.next] = ","
          THEN ParseItems(s, r.next + 1, Append(items, r.v))
     ELSE SyntaxError

\* JSON.parse(text): a SyntaxError unless the whole text is one value
JSONparse(text) ==
  LET r == ParseValue(text, 1)
  IN IF r.ok /\ r.next = Len(text) + 1 THEN r ELSE SyntaxError

\* ------------------------------------------------------- getBaseAndHeadRefs
\* context.payload.pull_request?.base?.sha and ...?.head?.sha
PullRequestSha(payload, side) ==
  IF payload.pull_request.present THEN payload.pull_request[side] ELSE undefined

\* SwitchEvent keeping the explicit input where the payload has no value
SwitchEventFallback(ctx, in) ==
  LET or(x, y) == IF Falsy(x) THEN y ELSE x
  IN IF ctx.eventName = "pull_request"
     THEN [threw |-> FALSE,
           base |-> or(PullRequestSha(ctx.payload, "base"), in.base),
           head |-> or(PullRequestSha(ctx.payload, "head"), in.head)]
     ELSE IF ctx.eventName = "push"
     THEN [threw |-> FALSE, base |-> or(ctx.payload.before, in.base),
           head |-> or(ctx.payload.after, in.head)]
     ELSE [threw |-> Falsy(in.base) \/ Falsy(in.head), base |-> in.base, head |-> in.head]

\* base and head after the switch on context.eventName; threw is the throw of
\* the default case
SwitchEvent(ctx, in) ==
  IF ctx.eventName = "pull_request"
  THEN [threw |-> FALSE,
        base |-> PullRequestSha(ctx.payload, "base"),
        head |-> PullRequestSha(ctx.payload, "head")]
  ELSE IF ctx.eventName = "push"
  THEN [threw |-> FALSE, base |-> ctx.payload.before, head |-> ctx.payload.after]
  ELSE [threw |-> Falsy(in.base) \/ Falsy(in.head), base |-> in.base, head |-> in.head]

\* parseIgnore without the Array.isArray test
parseIgnoreAnyValue(ignore) ==
  LET tmp == JSONparse(ignore)
  IN IF tmp.ok THEN tmp.v ELSE <<>>

\* the try/catch around JSON.parse(ignore)
parseIgnore(ignore) ==
  LET tmp == JSONparse(ignore)
  IN IF tmp.ok /\ tmp.kind = "array" THEN tmp.v ELSE <<>>

Thrown(msg) == [threw |-> TRUE, message |-> msg, base |-> undefined, head |-> undefined, ignore |-> <<>>]

\* getBaseAndHeadRefs without the second check of base and head
getBaseAndHeadRefsNoRecheck(ctx, in) ==
  LET sw == SwitchEvent(ctx, in)
      parsedIgnore == parseIgnore(in.ignore)
  IN IF sw.threw THEN Thrown("Missing 'base' or 'head' refs for event type")
     ELSE [threw |-> FALSE, message |-> "", base |-> sw.base, head |-> sw.head,
           ignore |-> parsedIgnore]

getBaseAndHeadRefs(ctx, in) ==
  LET sw == SwitchEvent(ctx, in)
      parsedIgnore == parseIgnore(in.ignore)
  IN IF sw.threw THEN Thrown("Missing 'base' or 'head' refs for event type")
     ELSE IF Falsy(sw.base) \/ Falsy(sw.head) THEN Thrown("Base or head refs are missing")
     ELSE [threw |-> FALSE, message |-> "", base |-> sw.base, head |-> sw.head,
           ignore |-> parsedIgnore]

\* --------------------------------------------------------------------- main
\* Array.prototype.join
RECURSIVE join(_, _)
join(arr, sep) ==
  IF arr = <<>> THEN <<>>
  ELSE IF Len(arr) = 1 THEN arr[1]
       ELSE arr[1] \o sep \o join(Tail(arr), sep)

\* JSON.stringify of an array of strings (no character needs an escape)
RECURSIVE Quoted(_)
Quoted(arr) ==
  IF arr = <<>> THEN <<>> ELSE <<<<QUOTE>> \o Head(arr) \o <<QUOTE>>>> \o Quoted(Tail(arr))

JSONstringify(arr) == <<"[">> \o join(Quoted(arr), <<",">>) \o <<"]">>

\* implicitDependencies.forEach(key => ...) for the project `name`
RECURSIVE DeclareKeys(_, _, _)
DeclareKeys(result, name, keys) ==
  IF keys = <<>> THEN result
  ELSE LET key == Head(keys)
           k == FindFrom(result, "key", key, 1)
           pushed == IF k = 0 THEN Append(result, KeyedEntry(key, <<>>)) ELSE result
           at == IF k = 0 THEN Len(pushed) ELSE k
       IN DeclareKeys([pushed EXCEPT ![at].projects = SetAdd(@, name)], name, Tail(keys))

\* Object.entries(workspace.projects).reduce(...): the keyed fan-out table
RECURSIVE GroupByKey(_, _)
GroupByKey(result, projects) ==
  IF projects = <<>> THEN result
  ELSE LET project == Head(projects)
           keys == IF project.implicitDependencies = undefinedArray THEN <<>>
                   ELSE project.implicitDependencies
       IN GroupByKey(DeclareKeys(result, project.name, keys), Tail(projects))

\* Object.keys(nx.implicitDependencies || {}).map(file => ({ file }))
RECURSIVE GlobalEntries(_)
GlobalEntries(keys) ==
  IF keys = <<>> THEN <<>> ELSE <<GlobalEntry(Head(keys))>> \o GlobalEntries(Tail(keys))

buildImplicitDependencies(nx, workspace) ==
  GlobalEntries(IF nx.implicitDependencies = undefinedArray THEN <<>> ELSE nx.implicitDependencies)
    \o GroupByKey(<<>>, workspace.projects)

DefaultAppsDir == <<"a", "p", "p", "s">>
DefaultLibsDir == <<"l", "i", "b", "s">>

\* nx.workspaceLayout?.appsDir || 'apps' and nx.workspaceLayout?.libsDir || 'libs'
layoutDir(nx, field, default) ==
  IF nx.workspaceLayout.present /\ ~Falsy(nx.workspaceLayout[field])
  THEN nx.workspaceLayout[field] ELSE default

\* (await fs.readdir(dir)).filter(name => name[0] !== '.')
RECURSIVE notHidden(_)
notHidden(listing) ==
  IF listing = <<>> THEN <<>>
  ELSE IF Head(listing)[1] # "." THEN <<Head(listing)>> \o notHidden(Tail(listing))
       ELSE notHidden(Tail(listing))

\* the six setOutput calls, in the order of the code
setOutputs(c) ==
  << [name |-> "changed-apps-matrix", value |-> JSONstringify(c.apps)],
     [name |-> "changed-apps", value |-> join(c.apps, <<" ">>)],
     [name |-> "changed-libs", value |-> join(c.libs, <<" ">>)],
     [name |-> "changed-dirs", value |-> join(c.apps \o c.libs, <<" ">>)],
     [name |-> "changed-implicit-dependencies", value |-> join(c.implicitDependencies, <<" ">>)],
     [name |-> "not-affected",
      value |-> (Len(c.apps) = 0 /\ Len(c.libs) = 0 /\ Len(c.implicitDependencies) = 0)] >>

\* ------------------------------------------------------------------- inputs
SeqsUpTo(S, n) == UNION {[1..k -> S] : k \in 0..n}

web == <<"w">>
admin == <<"d">>
core == <<"c">>
util == <<"u">>
ghost == <<"g">>
hidden == <<".", "g", "i", "t">>
x_ts == <<"x">>

Path(segments) == join(segments, <<"/">>)

appFile == Path(<<DefaultAppsDir, web, x_ts>>)
libFile == Path(<<DefaultLibsDir, core, x_ts>>)
utilFile == Path(<<DefaultLibsDir, util, x_ts>>)
ghostFile == Path(<<DefaultAppsDir, ghost, x_ts>>)
bareAppDir == Path(<<DefaultAppsDir, web>>)
nestedFile == Path(<<<<"t">>, DefaultAppsDir, admin, x_ts>>)
nxJsonFile == <<"n", "x", ".", "j", "s", "o", "n">>
readme == <<"r">>

Paths == {appFile, libFile, utilFile, ghostFile, bareAppDir, nestedFile, nxJsonFile, readme}
MainPaths == {appFile, libFile, nxJsonFile}

\* nx.json: no implicit dependency and no layout, or one global file and a layout
NxPlain == [implicitDependencies |-> undefinedArray,
            workspaceLayout |-> [present |-> FALSE, appsDir |-> undefined, libsDir |-> undefined]]
NxGlobal == [implicitDependencies |-> <<nxJsonFile>>,
             workspaceLayout |-> [present |-> TRUE, appsDir |-> DefaultAppsDir, libsDir |-> EmptyString]]

Project(n, deps) == [name |-> n, implicitDependencies |-> deps]
\* workspace.json: no declared dependency; two apps declaring core; the chain
\* core <- util <- web together with a project that has no directory
WsNone == [projects |-> <<Project(web, undefinedArray), Project(core, <<>>)>>]
WsApps == [projects |-> <<Project(web, <<core>>), Project(admin, <<core>>), Project(core, undefinedArray)>>]
WsChain == [projects |-> <<Project(util, <<core>>), Project(web, <<util>>), Project(ghost, <<core>>)>>]

Configs == [nx : {NxPlain, NxGlobal}, workspace : {WsNone, WsApps, WsChain}]
MainConfigs == {[nx |-> NxGlobal, workspace |-> WsApps], [nx |-> NxPlain, workspace |-> WsChain]}

AppListings == {<<>>, <<web>>, <<hidden, web, admin>>}
LibListings == {<<core>>, <<core, util, hidden>>}

\* texts of the ignore input
T_missing == <<>>
T_web == <<"[", QUOTE, "w", QUOTE, "]">>
T_web_core == <<"[", QUOTE, "w", QUOTE, ",", QUOTE, "c", QUOTE, "]">>
T_core_util == <<"[", QUOTE, "c", QUOTE, ",", QUOTE, "u", QUOTE, "]">>
T_none == <<"[", "]">>
T_string == <<QUOTE, "w", QUOTE>>
T_word == <<"w">>
T_open == <<"[", QUOTE, "w", QUOTE>>
T_trailing == <<"[", QUOTE, "w", QUOTE, "]", "]">>
T_object == <<"{", "}">>
T_number == <<"7">>
T_numbers == <<"[", "7", "]">>

IgnoreTexts == {T_missing, T_web, T_web_core, T_core_util, T_none, T_string, T_word,
                T_open, T_trailing, T_object, T_number, T_numbers}
IgnoreLists == {<<>>, <<web>>, <<core, util>>}

sha1 == <<"s", "1">>
sha2 == <<"s", "2">>
ref1 == <<"b", "1">>
ref2 == <<"b", "2">>

NoPullRequest == [present |-> FALSE, base |-> undefined, head |-> undefined]
PullRequests == {NoPullRequest} \cup
  [present : {TRUE}, base : {undefined, EmptyString, sha1}, head : {undefined, EmptyString, sha2}]

Contexts ==
  [eventName : {"pull_request"},
   payload : [pull_request : PullRequests, before : {undefined}, after : {undefined}]]
  \cup
  [eventName : {"push"},
   payload : [pull_request : {NoPullRequest},
              before : {undefined, EmptyString, sha1}, after : {undefined, EmptyString, sha2}]]
  \cup
  [eventName : {"workflow_dispatch"},
   payload : [pull_request : {NoPullRequest}, before : {undefined}, after : {undefined}]]

\* getInput returns '' for an input that is not set
Inputs == [base : {EmptyString, ref1}, head : {EmptyString, ref2}, ignore : IgnoreTexts]

MainContexts ==
  {[eventName |-> "pull_request",
    payload |-> [pull_request |-> [present |-> TRUE, base |-> sha1, head |-> sha2],
                 before |-> undefined, after |-> undefined]],
   [eventName |-> "push",
    payload |-> [pull_request |-> NoPullRequest, before |-> sha1, after |-> undefined]],
   [eventName |-> "workflow_dispatch",
    payload |-> [pull_request |-> NoPullRequest, before |-> undefined, after |-> undefined]]}
MainInputs == [base : {EmptyString, ref1}, head : {ref2}, ignore : {T_web, T_word}]

\* ------------------------------------------------------------ state machine
\* pc is the position of main, log the steps it has started, in order.  The
\* calls of info and console.log change no state and are left out; getOctokit
\* only builds the client that getChangedFiles uses.
NoRefs == [threw |-> FALSE, message |-> "", base |-> undefined, head |-> undefined, ignore |-> <<>>]
NoArgs == [appsDir |-> <<>>, libsDir |-> <<>>, allApps |-> <<>>, allLibs |-> <<>>,
           implicitDependencies |-> <<>>, changedFiles |-> <<>>, ignore |-> <<>>]
NoConfig == [nx |-> NxPlain, workspace |-> [projects |-> <<>>]]

\* main().catch(error => setFailed(error))
setFailed(step) ==
  /\ pc' = "failed"
  /\ failed' = TRUE
  /\ log' = Append(log, step)

\* ResolveRefs going on to the diff after getBaseAndHeadRefs threw
ResolveRefsSwallow ==
  /\ pc = "refs"
  /\ LET r == getBaseAndHeadRefs(context, inputs)
     IN /\ refs' = r
        /\ args' = [args EXCEPT !.ignore = r.ignore]
  /\ pc' = "diff"
  /\ log' = Append(log, "getBaseAndHeadRefs")
  /\ UNCHANGED <<context, inputs, config, changes, outputs, failed>>

\* const { base, head, ignore } = getBaseAndHeadRefs({...getInput...})
ResolveRefs ==
  /\ pc = "refs"
  /\ LET r == getBaseAndHeadRefs(context, inputs)
     IN /\ refs' = r
        /\ IF r.threw
           THEN /\ setFailed("getBaseAndHeadRefs")
                /\ UNCHANGED args
           ELSE /\ pc' = "diff"
                /\ args' = [args EXCEPT !.ignore = r.ignore]
                /\ log' = Append(log, "getBaseAndHeadRefs")
                /\ UNCHANGED failed
  /\ UNCHANGED <<context, inputs, config, changes, outputs>>

\* const changedFiles = await getChangedFiles(octokit, base, head)
GetChangedFiles ==
  /\ pc = "diff"
  /\ \/ /\ setFailed("getChangedFiles")
        /\ UNCHANGED args
     \/ /\ \E fl \in SeqsUpTo(MainPaths, MaxFiles) : args' = [args EXCEPT !.changedFiles = fl]
        /\ pc' = "readNx"
        /\ log' = Append(log, "getChangedFiles")
        /\ UNCHANGED failed
  /\ UNCHANGED <<context, inputs, refs, config, changes, outputs>>

\* const { nx, workspace } = readNx()
ReadNx ==
  /\ pc = "readNx"
  /\ \/ /\ setFailed("readNx")
        /\ UNCHANGED config
     \/ /\ config' \in MainConfigs
        /\ pc' = "deps"
        /\ log' = Append(log, "readNx")
        /\ UNCHANGED failed
  /\ UNCHANGED <<context, inputs, refs, args, changes, outputs>>

\* the implicitDependencies table, appsDir and libsDir
BuildDependencies ==
  /\ pc = "deps"
  /\ args' = [args EXCEPT
                !.implicitDependencies = buildImplicitDependencies(config.nx, config.workspace),
                !.appsDir = layoutDir(config.nx, "appsDir", DefaultAppsDir),
                !.libsDir = layoutDir(config.nx, "libsDir", DefaultLibsDir)]
  /\ pc' = "readdirApps"
  /\ log' = Append(log, "implicitDependencies")
  /\ UNCHANGED <<context, inputs, refs, config, changes, outputs, failed>>

\* const allApps = (await fs.readdir(appsDir)).filter(...)
ReadDirApps ==
  /\ pc = "readdirApps"
  /\ \/ /\ setFailed("readdir")
        /\ UNCHANGED args
     \/ /\ \E listing \in AppListings : args' = [args EXCEPT !.allApps = notHidden(listing)]
        /\ pc' = "readdirLibs"
        /\ log' = Append(log, "readdir")
        /\ UNCHANGED failed
  /\ UNCHANGED <<context, inputs, refs, config, changes, outputs>>

\* const allLibs = (await fs.readdir(libsDir)).filter(...)
ReadDirLibs ==
  /\ pc = "readdirLibs"
  /\ \/ /\ setFailed("readdir")
        /\ UNCHANGED args
     \/ /\ \E listing \in LibListings : args' = [args EXCEPT !.allLibs = notHidden(listing)]
        /\ pc' = "classify"
        /\ log' = Append(log, "readdir")
        /\ UNCHANGED failed
  /\ UNCHANGED <<context, inputs, refs, config, changes, outputs>>

\* const changes = getChanges({...})
Classify ==
  /\ pc = "classify"
  /\ changes' = getChanges(args)
  /\ pc' = "output"
  /\ log' = Append(log, "getChanges")
  /\ UNCHANGED <<context, inputs, refs, config, args, outputs, failed>>

\* the setOutput calls that end main
SetOutputs ==
  /\ pc = "output"
  /\ outputs' = setOutputs(changes)
  /\ pc' = "done"
  /\ log' = Append(log, "setOutput")
  /\ UNCHANGED <<context, inputs, refs, config, args, changes, failed>>

\* a run of main
Init ==
  /\ pc = "refs"
  /\ context \in MainContexts
  /\ inputs \in MainInputs
  /\ refs = NoRefs
  /\ config = NoConfig
  /\ args = NoArgs
  /\ changes = EmptyChanges
  /\ outputs = <<>>
  /\ failed = FALSE
  /\ log = <<>>

Next ==
  \/ ResolveRefs
  \/ GetChangedFiles
  \/ ReadNx
  \/ BuildDependencies
  \/ ReadDirApps
  \/ ReadDirLibs
  \/ Classify
  \/ SetOutputs

Spec == Init /\ [][Next]_vars

\* getBaseAndHeadRefs on every event, payload and input of the bounded sets
InitRefs ==
  /\ pc = "refs"
  /\ context \in Contexts
  /\ inputs \in Inputs
  /\ refs = NoRefs
  /\ config = NoConfig
  /\ args = NoArgs
  /\ changes = EmptyChanges
  /\ outputs = <<>>
  /\ failed = FALSE
  /\ log = <<>>

NextRefs == ResolveRefs

SpecRefs == InitRefs /\ [][NextRefs]_vars

\* getChanges on the arguments main can build from the bounded configurations,
\* directory listings, ignore lists and changed-file lists
ArgsOf(cfg, apps, libs, changedFiles, ignore) ==
  [appsDir |-> layoutDir(cfg.nx, "appsDir", DefaultAppsDir),
   libsDir |-> layoutDir(cfg.nx, "libsDir", DefaultLibsDir),
   allApps |-> notHidden(apps),
   allLibs |-> notHidden(libs),
   implicitDependencies |-> buildImplicitDependencies(cfg.nx, cfg.workspace),
   changedFiles |-> changedFiles,
   ignore |-> ignore]

InitChanges ==
  /\ pc = "classify"
  /\ context = CHOOSE c \in MainContexts : c.eventName = "pull_request"
  /\ inputs = [base |-> EmptyString, head |-> EmptyString, ignore |-> T_missing]
  /\ config \in Configs
  /\ \E apps \in AppListings, libs \in LibListings,
        fl \in SeqsUpTo(Paths, MaxFiles), ig \in IgnoreLists :
       /\ args = ArgsOf(config, apps, libs, fl, ig)
       /\ refs = [threw |-> FALSE, message |-> "", base |-> sha1, head |-> sha2, ignore |-> ig]
  /\ changes = EmptyChanges
  /\ outputs = <<>>
  /\ failed = FALSE
  /\ log = <<"getBaseAndHeadRefs", "getChangedFiles", "readNx", "implicitDependencies",
             "readdir", "readdir">>

NextChanges == Classify

SpecChanges == InitChanges /\ [][NextChanges]_vars

\* ------------------------------------------------------------------- claims
\* getChanges has returned
Classified == pc \in {"output", "done"}
\* getBaseAndHeadRefs has returned or thrown
Resolved == pc # "refs"

Files == Range(args.changedFiles)
KeyedEntries == {e \in Range(args.implicitDependencies) : e.key # undefined}
GlobalFiles == {e.file : e \in {g \in Range(args.implicitDependencies) : g.file # undefined}}
Ignored(n) == n \in Range(args.ignore)

\* file is dir/name/rest with dir leading the path, name without '/' and rest
\* not empty
HasProjectForm(dir, file, name) ==
  /\ name # <<>>
  /\ "/" \notin Range(name)
  /\ \E r \in 1..Len(file) :
       file = dir \o <<"/">> \o name \o <<"/">> \o SubSeq(file, Len(file) - r + 1, Len(file))

\* every string that is a piece of file
Pieces(file) == {SubSeq(file, i, j) : i \in 1..Len(file), j \in 1..Len(file)}

\* the name the reducer adds for file by rule 3 (apps) or rule 2 (libs)
DirectName(dir, file) ==
  IF dirFinder(dir, file) = undefined THEN undefined ELSE LastSegment(dirFinder(dir, file))

\* C1: no project name of ignore is in the returned apps and none is in the
\* returned libs.
C1_IgnoredInNeitherList ==
  Classified =>
    \A n \in Range(args.ignore) :
      n \notin Range(changes.apps) /\ n \notin Range(changes.libs)

\* C2: when a changed file equals the file of a global implicit-dependency
\* entry, every app of allApps and every lib of allLibs that is not ignored is
\* returned, and the file is in implicitDependencies.
C2_GlobalFileMarksEverything ==
  Classified =>
    \A f \in Files :
      f \in GlobalFiles =>
        /\ \A app \in Range(args.allApps) : ~Ignored(app) => app \in Range(changes.apps)
        /\ \A lib \in Range(args.allLibs) : ~Ignored(lib) => lib \in Range(changes.libs)
        /\ f \in Range(changes.implicitDependencies)

C2_Witness ==
  /\ Classified
  /\ nxJsonFile \in Files /\ nxJsonFile \in GlobalFiles
  /\ args.changedFiles = <<nxJsonFile>>
  /\ args.allApps = <<web, admin>> /\ args.ignore = <<web>>
  /\ changes.apps = <<admin>>
  /\ changes.libs = args.allLibs
  /\ changes.implicitDependencies = <<nxJsonFile>>

\* the part of C3 about the projects of the entry that are known
FanOutReachesKnown(e) ==
  \A P \in Range(e.projects) :
    /\ (includes(args.allApps, P) /\ ~Ignored(P)) => P \in Range(changes.apps)
    /\ (includes(args.allLibs, P) /\ ~Ignored(P)) => P \in Range(changes.libs)

\* C3 as stated: a changed file inside library L whose name is a fan-out key
\* puts L in libs and every project of the entry in apps or libs by its
\* membership in allApps or allLibs (unless ignored); a project in neither is
\* in neither returned list.
C3_Original ==
  Classified =>
    \A f \in Files : \A e \in KeyedEntries :
      HasProjectForm(args.libsDir, f, e.key) =>
        /\ e.key \in Range(changes.libs)
        /\ FanOutReachesKnown(e)
        /\ \A P \in Range(e.projects) :
             (~includes(args.allApps, P) /\ ~includes(args.allLibs, P)) =>
               P \notin Range(changes.apps) /\ P \notin Range(changes.libs)

\* C3 amended: as C3, but a project in neither allApps nor allLibs is in the
\* returned apps only when a changed file is itself matched under its apps
\* directory, and in the returned libs only when a changed file is itself
\* matched under its libs directory.
C3_FanOutOfDirectLibHit ==
  Classified =>
    \A f \in Files : \A e \in KeyedEntries :
      HasProjectForm(args.libsDir, f, e.key) =>
        /\ e.key \in Range(changes.libs)
        /\ FanOutReachesKnown(e)
        /\ \A P \in Range(e.projects) :
             (~includes(args.allApps, P) /\ ~includes(args.allLibs, P)) =>
               /\ P \in Range(changes.apps) => \E g \in Files : DirectName(args.appsDir, g) = P
               /\ P \in Range(changes.libs) => \E g \in Files : DirectName(args.libsDir, g) = P

C3_Witness ==
  /\ Classified
  /\ args.changedFiles = <<libFile>>
  /\ \E e \in KeyedEntries : e.key = core /\ e.projects = <<util, ghost>>
  /\ args.allLibs = <<core, util>>
  /\ changes.libs = <<core, util>>
  /\ ghost \notin Range(changes.apps) /\ ghost \notin Range(changes.libs)

\* C4: the result is closed under the keyed fan-out table: for every returned
\* lib L with an entry of key L, every known project of that entry is
\* returned too (unless ignored), whatever the length of the chain.
C4_ClosedUnderFanOut ==
  Classified =>
    \A L \in Range(changes.libs) : \A e \in KeyedEntries :
      e.key = L => FanOutReachesKnown(e)

\* C5: a changed file directly marks the app (lib) `name`, by its bare
\* directory name, if and only if its path is appsDir/name/rest
\* (libsDir/name/rest) with the directory leading the path, name without '/'
\* and rest not empty.
C5_DirectHitIffInsideDir ==
  Classified =>
    \A f \in Files : \A name \in Pieces(f) :
      /\ DirectName(args.appsDir, f) = name <=> HasProjectForm(args.appsDir, f, name)
      /\ DirectName(args.libsDir, f) = name <=> HasProjectForm(args.libsDir, f, name)

NonEmptyString(x) == x # undefined /\ x # EmptyString

\* C6: getBaseAndHeadRefs throws or returns a non-empty base and a non-empty
\* head; for an event other than pull_request and push it throws whenever the
\* explicit base or head is missing or empty.
C6_RefsNonEmptyOrThrow ==
  Resolved =>
    /\ refs.threw \/ (NonEmptyString(refs.base) /\ NonEmptyString(refs.head))
    /\ refs.threw <=> failed
    /\ (context.eventName \notin {"pull_request", "push"}
          /\ (Falsy(inputs.base) \/ Falsy(inputs.head))) => refs.threw

C6_Witness ==
  /\ Resolved
  /\ context.eventName = "workflow_dispatch"
  /\ inputs.base = ref1 /\ inputs.head = EmptyString
  /\ refs.threw /\ failed

\* C7: for pull_request the resolved base and head are the payload's
\* pull-request base and head SHAs, for push the payload's before and after,
\* whatever the explicit inputs; when a payload value is empty the resolution
\* fails instead of using the explicit input.
C7_PayloadOverridesInputs ==
  Resolved =>
    /\ context.eventName = "pull_request" =>
         LET b == PullRequestSha(context.payload, "base")
             h == PullRequestSha(context.payload, "head")
         IN IF Falsy(b) \/ Falsy(h) THEN refs.threw
            ELSE ~refs.threw /\ refs.base = b /\ refs.head = h
    /\ context.eventName = "push" =>
         IF Falsy(context.payload.before) \/ Falsy(context.payload.after) THEN refs.threw
         ELSE /\ ~refs.threw
              /\ refs.base = context.payload.before
              /\ refs.head = context.payload.after

C7_Witness ==
  /\ Resolved
  /\ context.eventName = "pull_request"
  /\ inputs.base = ref1 /\ inputs.head = ref2
  /\ context.payload.pull_request.present
  /\ context.payload.pull_request.base = sha1
  /\ context.payload.pull_request.head = EmptyString
  /\ refs.threw

\* what JSON.parse and Array.isArray make of each ignore text, by hand
ExpectedIgnore(text) ==
  CASE text = T_web -> <<web>>
    [] text = T_web_core -> <<web, core>>
    [] text = T_core_util -> <<core, util>>
    [] text = T_none -> <<>>
    [] text = T_numbers -> <<<<"number", "7">>>>
    [] OTHER -> <<>>

StepOrder == <<"getBaseAndHeadRefs", "getChangedFiles", "readNx", "implicitDependencies",
               "readdir", "readdir", "getChanges", "setOutput">>

C9_Order ==
  /\ Len(log) <= Len(StepOrder)
  /\ \A k \in 1..Len(log) : log[k] = StepOrder[k]
  /\ failed <=> pc = "failed"
  /\ failed => outputs = <<>>
  /\ refs.threw => (failed /\ log = <<"getBaseAndHeadRefs">>)
  /\ outputs # <<>> => (~failed /\ log = StepOrder /\ pc = "done")
  /\ pc = "done" => outputs = setOutputs(changes)

\* C9: main runs reference resolution, changed-file retrieval, config read,
\* directory listing, classification and output emission in this order; after
\* a failed step no step runs, no diff is requested after missing refs, the
\* failed run is reported failed and has no output, and outputs are set only
\* after every earlier step succeeded.
C9_StepsInOrderFailFast == []C9_Order /\ [][~failed /\ pc # "done"]_vars

C9_Witness ==
  /\ pc = "failed" /\ failed
  /\ log = <<"getBaseAndHeadRefs", "getChangedFiles", "readNx", "implicitDependencies", "readdir">>
  /\ outputs = <<>>

Reorderings(arr) ==
  {[k \in 1..Len(arr) |-> arr[p[k]]] :
     p \in {q \in [1..Len(arr) -> 1..Len(arr)] : \A i, j \in 1..Len(arr) : q[i] = q[j] => i = j}}

Count(arr, x) == Cardinality({k \in 1..Len(arr) : arr[k] = x})

\* C10: the result of getChanges is the same for every order of the changed
\* files: apps equal as sets, libs equal as sets, implicitDependencies equal
\* as multisets.
C10_OrderOfFilesIrrelevant ==
  Classified =>
    \A perm \in Reorderings(args.changedFiles) :
      LET r == getChanges([args EXCEPT !.changedFiles = perm])
      IN /\ Range(r.apps) = Range(changes.apps)
         /\ Range(r.libs) = Range(changes.libs)
         /\ \A f \in Range(r.implicitDependencies) \cup Range(changes.implicitDependencies) :
              Count(r.implicitDependencies, f) = Count(changes.implicitDependencies, f)

C10_Witness ==
  /\ Classified
  /\ args.changedFiles = <<ghostFile, nxJsonFile>>
  /\ nxJsonFile \in GlobalFiles
  /\ args.ignore = <<>>
  /\ changes.apps = <<ghost, web, admin>>
  /\ getChanges([args EXCEPT !.changedFiles = <<nxJsonFile, ghostFile>>]).apps = <<web, admin, ghost>>

====
